---- MODULE Spec2Model ----
(***************************************************************************)
(* Model of the halo2 example circuits: the small range check              *)
(* (range_check/example1), the combined range check with lookup table      *)
(* (range_check/example2), the running-sum decomposer                      *)
(* (decompose/decompose_range_check) and the is_zero / is_equal gadgets.   *)
(*                                                                         *)
(* A behaviour is one MockProver::run(k, &circuit, ..) followed by         *)
(* prover.verify(): the floor planner drives Circuit::synthesize, whose    *)
(* regions assign advice cells, enable selectors and record equality       *)
(* constraints; verify then evaluates every gate, lookup and equality      *)
(* constraint over the assigned rows.  The prime field (pasta::Fp in the   *)
(* tests) is modelled by a small prime field F_P.                          *)
(***************************************************************************)
EXTENDS Integers, Sequences, FiniteSets, TLC

\* ------------------------------------------------------------------ bounds
PrimeIdx == 6
MaxRANGE == 17
MaxLookupBits == 4
MaxNumBits == 7

\* ------------------------------------------------------- the prime field F
Primes == <<3, 5, 7, 11, 13, 17, 19, 23, 29, 31>>
\* The field modulus (pasta::Fp in the tests; here the PrimeIdx-th odd prime).
P == Primes[PrimeIdx]
Field == 0..(P - 1)

\* F::from(u64)
FromU64(n) == n % P
FAdd(x, y) == (x + y) % P
FSub(x, y) == (x + P - y) % P
FMul(x, y) == (x * y) % P

RECURSIVE FPow(_, _)
FPow(x, e) == IF e = 0 THEN 1 ELSE FMul(x, FPow(x, e - 1))

RECURSIVE Pow2(_)
\* 1 << n
Pow2(n) == IF n = 0 THEN 1 ELSE 2 * Pow2(n - 1)

RECURSIVE ilog2(_)
\* i32::ilog2: floor of the base-2 logarithm of n >= 1
ilog2(n) == IF n <= 1 THEN 0 ELSE 1 + ilog2(n \div 2)

None == [is_some |-> FALSE, v |-> 0]
Some(x) == [is_some |-> TRUE, v |-> x]
\* Field::invert(): CtOption, None for zero, else x^(P-2)
invert(x) == IF x = 0 THEN None ELSE Some(FPow(x, P - 2))
unwrap_or(o, d) == IF o.is_some THEN o.v ELSE d
\* Assigned::invert().evaluate(): the inverse, zero for a zero denominator
AssignedInvert(x) == unwrap_or(invert(x), 0)

Min(x, y) == IF x <= y THEN x ELSE y

\* ------------------------------------------------------------------- state
VARIABLES
    circuit,        \* the Circuit implementation run by MockProver::run
    RANGE,          \* const generic RANGE of the circuit
    NUM_BITS,       \* const generic NUM_BITS / LOOKUP_NUM_BITS of the circuit
    num_bits,       \* DecomposeRangeCheckCircuit.num_bits
    value,          \* the circuit's witnessed value
    lookup_value,   \* RangeCheckCircuit.lookup_value (example2)
    a, b,           \* IsEqualCircuit.a, IsEqualCircuit.b
    instance,       \* the instance column MockProver::run is given, row i at index i + 1
    prover,         \* "honest": the cells are those synthesize assigned
    pass,           \* the floor planner's pass: "measure" or "assign"
    pc,             \* position in synthesize / verify
    regions,        \* names of the regions entered so far, in order
    table,          \* the lookup table column, row i at index i + 1
    advice,         \* assigned advice cells: <<region, column, offset>> -> F
    enabled,        \* enabled selectors: <<region, selector, offset>>
    copies,         \* equality constraints between two advice cells
    constant_cells, \* equality constraints between a cell and a constant
    aborted,        \* a panic (failed assert) ended the run
    failures        \* the result of prover.verify()

inputs == <<circuit, RANGE, NUM_BITS, num_bits, value, lookup_value, a, b, instance>>
cs == <<regions, table, advice, enabled, copies, constant_cells>>
vars == <<inputs, prover, pass, pc, cs, aborted, failures>>

\* ------------------------------------------------- bits and the running sum
\* The width of the field's canonical little-endian bit representation
\* (PrimeFieldBits::to_le_bits; 256 bits for the 255-bit pasta::Fp).
RECURSIVE BitLen(_)
BitLen(n) == IF n = 0 THEN 0 ELSE 1 + BitLen(n \div 2)
ReprBits == BitLen(P) + 1

\* value.evaluate().to_le_bits(): bit i (from 0) of x at index i + 1
to_le_bits(x) == [i \in 1..ReprBits |-> (x \div Pow2(i - 1)) % 2]

\* .take(n)
Take(s, n) == SubSeq(s, 1, Min(n, Len(s)))

\* Faulty variant: an empty slice yields one empty chunk
ChunksNeverEmpty(s, k) ==
    IF s = <<>> THEN << <<>> >>
    ELSE [i \in 1..((Len(s) + k - 1) \div k) |->
            SubSeq(s, (i - 1) * k + 1, Min(i * k, Len(s)))]

\* slice.chunks(k): consecutive chunks of k elements, the last one shorter
Chunks(s, k) ==
    [i \in 1..((Len(s) + k - 1) \div k) |->
        SubSeq(s, (i - 1) * k + 1, Min(i * k, Len(s)))]

RECURSIVE lebs2ipBigEndian(_)
\* Faulty variant: the first bit is taken as the most significant
lebs2ipBigEndian(bits) ==
    IF bits = <<>> THEN 0
    ELSE 2 * lebs2ipBigEndian(SubSeq(bits, 1, Len(bits) - 1))
            + (IF bits[Len(bits)] = 1 THEN 1 ELSE 0)

RECURSIVE lebs2ip(_)
\* fold(0, |acc, (i, b)| acc + if b { 1 << i } else { 0 })
lebs2ip(bits) ==
    IF bits = <<>> THEN 0
    ELSE lebs2ip(SubSeq(bits, 1, Len(bits) - 1))
            + (IF bits[Len(bits)] = 1 THEN Pow2(Len(bits) - 1) ELSE 0)

\* Faulty variant: the running sum anchored at the truncated value
RunningSumStartTruncated(v, n) == FromU64(lebs2ip(Take(to_le_bits(v), n)))

\* z_0, the initial accumulator of compute_running_sum: `let mut z = value`
RunningSumStart(v, n) == v

\* Faulty variant: the factor 2^K is not inverted
RunningSumStepNoInvert(z, chunk, k) ==
    FMul(FSub(z, FromU64(lebs2ip(chunk))), FromU64(Pow2(k)))

\* z_{i+1} = (z_i - c_i) * 2^{-K}
RunningSumStep(z, chunk, k) ==
    FMul(FSub(z, FromU64(lebs2ip(chunk))), AssignedInvert(FromU64(Pow2(k))))

RECURSIVE RunningSumFold(_, _, _)
\* the loop over value.chunks(lookup_num_bits), pushing each new z
RunningSumFold(z, chunks, k) ==
    IF chunks = <<>> THEN <<>>
    ELSE LET zn == RunningSumStep(z, Head(chunks), k)
         IN  <<zn>> \o RunningSumFold(zn, Tail(chunks), k)

\* helpers::compute_running_sum: {z_1, ..., z_C}, or a panic when the final
\* assert_eq!(running_sum.len(), num_bits / lookup_num_bits) fails
compute_running_sum(v, n, k) ==
    LET bits == Take(to_le_bits(v), n)
        running_sum == RunningSumFold(RunningSumStart(v, n), Chunks(bits, k), k)
    IN  [panic |-> Len(running_sum) # n \div k, running_sum |-> running_sum]

\* let lookup_num_bits = (RANGE as i32 + 1).ilog2()
lookup_num_bits(range) == ilog2(range + 1)

\* ------------------------------------------------------- lookup tables
\* Faulty variant: the loop runs over 0..=(1 << NUM_BITS)
RangeTableLoad2Inclusive(nbits) == [i \in 1..(Pow2(nbits) + 1) |-> FromU64(i - 1)]

\* range_check/example2 RangeTableConfig::load: for value in 0..(1 << NUM_BITS)
RangeTableLoad2(nbits) == [i \in 1..Pow2(nbits) |-> FromU64(i - 1)]

\* decompose RangeTableConfig::load: for value in 0..RANGE
RangeTableLoadDecompose(range) == [i \in 1..range |-> FromU64(i - 1)]

\* ------------------------------------------------------- gate expressions
\* A range-check polynomial is kept as the list of factors the fold multiplies:
\* the bare `value` or `Constant(num) - value`.
ValueFactor == [kind |-> "value", num |-> 0]
ConstMinusValue(n) == [kind |-> "const_minus_value", num |-> n]

\* example1: (0..range).fold(value, |acc, num| acc * (Constant(num) - value))
range_check1(range) ==
    <<ValueFactor>> \o [i \in 1..range |-> ConstMinusValue(i - 1)]

\* Faulty variant: the fold stops one factor early, over 1..(range - 1)
range_check2_short(range) ==
    <<ValueFactor>> \o [i \in 1..(range - 2) |-> ConstMinusValue(i)]

\* example2: (1..range).fold(value, |acc, num| acc * (Constant(num) - value))
range_check2(range) ==
    <<ValueFactor>> \o [i \in 1..(range - 1) |-> ConstMinusValue(i)]

EvalFactor(f, v) == IF f.kind = "value" THEN v ELSE FSub(FromU64(f.num), v)

RECURSIVE EvalProduct(_, _)
EvalProduct(fs, v) ==
    IF fs = <<>> THEN 1 ELSE FMul(EvalProduct(SubSeq(fs, 1, Len(fs) - 1), v),
                                  EvalFactor(fs[Len(fs)], v))

\* Constraints::with_selector(q_range_check, [("range check", range_check(RANGE, value))])
RangeCheckGate1(q, range, v) == FMul(q, EvalProduct(range_check1(range), v))
RangeCheckGate2(q, range, v) == FMul(q, EvalProduct(range_check2(range), v))

\* Faulty variant: the lookup input is not gated by q_lookup
RangeLookupInputNoSelector(q, v) == v
\* example2 lookup input: q_lookup * value
RangeLookupInput(q, v) == FMul(q, v)

\* Faulty variant: the chunk is z_cur - z_next, without the shift by 2^K
DecomposeLookupInputNoShift(q, z_cur, z_next, range) ==
    FAdd(FMul(q, FSub(z_cur, z_next)), FMul(FSub(1, q), 0))

\* decompose lookup input:
\*   q_decompose * (z_cur - z_next * 2^K) + (1 - q_decompose) * 0
DecomposeLookupInput(q, z_cur, z_next, range) ==
    FAdd(FMul(q, FSub(z_cur, FMul(z_next, FromU64(Pow2(lookup_num_bits(range)))))),
         FMul(FSub(1, q), 0))

\* Faulty variant: the indicator is value * value_inv, without the `1 -`
IsZeroExprProduct(v, v_inv) == FMul(v, v_inv)
\* is_zero_expr = 1 - value * value_inv
IsZeroExpr(v, v_inv) == FSub(1, FMul(v, v_inv))
\* Faulty variant: the gate multiplies by value_inv instead of value
IsZeroGateWrongFactor(q, v, v_inv) == FMul(FMul(q, v_inv), IsZeroExpr(v, v_inv))
\* gate "is_zero": q_enable * value * is_zero_expr
IsZeroGate(q, v, v_inv) == FMul(FMul(q, v), IsZeroExpr(v, v_inv))
\* Faulty variant: the gate queries column a twice
IsEqualGateSameColumn(s, x, y) == FMul(s, FSub(x, x))
\* gate "Is Equal": s * (a - b)
IsEqualGate(s, x, y) == FMul(s, FSub(x, y))

\* Faulty variant: the value is assigned without inverting it
IsZeroAssignNoInvert(v) == v
\* IsZeroChip::assign: value_inv = value.invert().unwrap_or(F::zero())
IsZeroAssign(v) == unwrap_or(invert(v), 0)

\* ------------------------------------------------------------- fibonacci
\* synthesize: chip.assign(layouter.namespace(|| "fibonaci table"), 10)
FiboRows == 10
\* synthesize: chip.expose_public(layouter.namespace(|| "out"), out_cell, 2)
FiboOutRow == 2

\* gate "add": s * (a + b - c)
FiboAddGate(s, x, y, z) == FMul(s, FSub(FAdd(x, y), z))

\* Faulty variant: the loop enables the selector while row < rows - 1
FiboSelectorRowsOffByOne(rows) == {0, 1} \cup {row \in 2..(rows - 1) : row < rows - 1}

\* FiboChip::assign: the rows on which the selector is enabled: 0, 1 and
\* every row of the loop with row < rows - 2
FiboSelectorRows(rows) == {0, 1} \cup {row \in 2..(rows - 1) : row < rows - 2}

RECURSIVE FiboLoop(_, _, _, _, _, _)
\* FiboChip::assign: for row in 2..rows, c = a + b is assigned at row, then
\* a_cell = b_cell and b_cell = c_cell; the result is the last b_cell
FiboLoop(adv, r, row, rows, a_cell, b_cell) ==
    IF row >= rows THEN [advice |-> adv, out_cell |-> b_cell]
    ELSE LET c_cell == <<r, "advice", row>>
         IN  FiboLoop((c_cell :> FAdd(adv[a_cell], adv[b_cell])) @@ adv,
                      r, row + 1, rows, b_cell, c_cell)

\* ------------------------------------------------------------ initial states
\* The chunk widths whose table fits the field: 2^k < P
LookupBits == {k \in 1..MaxLookupBits : Pow2(k) < P}

\* Faulty variant: the decomposer laid out by SimpleFloorPlanner as well
FloorPlannerSimple(c) == "SimpleFloorPlanner"
\* type FloorPlanner of the circuit: V1 for the decomposer, else SimpleFloorPlanner
FloorPlanner(c) == IF c = "decompose" THEN "V1" ELSE "SimpleFloorPlanner"

\* V1 synthesizes twice: a measurement pass over circuit.without_witnesses(),
\* whose regions only record their shape, then the assignment pass.
\* SimpleFloorPlanner runs synthesize once, assigning.
FirstPass(c) == IF FloorPlanner(c) = "V1" THEN "measure" ELSE "assign"

EmptyCS ==
    /\ regions = <<>>
    /\ table = <<>>
    /\ advice = <<>>
    /\ enabled = {}
    /\ copies = {}
    /\ constant_cells = {}

InitRun(c, first_pc) ==
    /\ circuit = c
    /\ prover = "honest"
    /\ pass = FirstPass(c)
    /\ pc = first_pc
    /\ EmptyCS
    /\ aborted = FALSE
    /\ failures = <<>>

\* range_check/example1: RangeCheckCircuit::<Fp, RANGE> { value }
InitRangeCheck1 ==
    /\ InitRun("range_check1", "assign")
    /\ RANGE \in 1..Min(MaxRANGE, P)
    /\ value \in Field
    /\ NUM_BITS = 0 /\ num_bits = 0 /\ lookup_value = 0 /\ a = 0 /\ b = 0
    /\ instance = <<>>

\* range_check/example2: RangeCheckCircuit::<Fp, RANGE, NUM_BITS> { value, lookup_value }
InitRangeCheck2 ==
    /\ InitRun("range_check2", "load")
    /\ RANGE \in 1..Min(MaxRANGE, P)
    /\ NUM_BITS \in LookupBits
    /\ value \in Field
    /\ lookup_value \in Field
    /\ num_bits = 0 /\ a = 0 /\ b = 0
    /\ instance = <<>>

\* decompose: DecomposeRangeCheckCircuit::<Fp, LOOKUP_NUM_BITS, RANGE> { value, num_bits }
\* (the test instantiates NUM_BITS = 8, RANGE = 256 = 1 << NUM_BITS; the
\* generics are independent, so RANGE also takes the neighbours of 1 << NUM_BITS)
InitDecompose ==
    /\ InitRun("decompose", "load")
    /\ NUM_BITS \in LookupBits
    /\ RANGE \in {Pow2(NUM_BITS) - 1, Pow2(NUM_BITS), Pow2(NUM_BITS) + 1}
    /\ num_bits \in 0..MaxNumBits
    /\ value \in Field
    /\ lookup_value = 0 /\ a = 0 /\ b = 0
    /\ instance = <<>>

\* gadgets/is_equal: IsEqualCircuit { a, b }
InitIsEqual ==
    /\ InitRun("is_equal", "assign")
    /\ a \in Field
    /\ b \in Field
    /\ RANGE = 0 /\ NUM_BITS = 0 /\ num_bits = 0 /\ value = 0 /\ lookup_value = 0
    /\ instance = <<>>

\* fibonaci/example2: FiboCircuit with the public inputs vec![a, b, out]
InitFibo ==
    /\ InitRun("fibo", "assign")
    /\ instance \in [1..3 -> Field]
    /\ RANGE = 0 /\ NUM_BITS = 0 /\ num_bits = 0 /\ value = 0 /\ lookup_value = 0
    /\ a = 0 /\ b = 0

Init == InitRangeCheck1 \/ InitRangeCheck2 \/ InitDecompose \/ InitIsEqual \/ InitFibo

\* ------------------------------------------------------------- synthesize
\* The index MockProver gives the next region entered
NextRegion == Len(regions)
AdviceCell(r, col, o) == <<r, col, o>>
Assign(adv, cell, v) == (cell :> v) @@ adv

\* example1 RangeCheckConfig::assign, called from synthesize
RangeCheck1Assign ==
    /\ circuit = "range_check1" /\ pc = "assign"
    /\ regions' = Append(regions, "assign region")
    /\ enabled' = enabled \cup {<<NextRegion, "q_range_check", 0>>}
    /\ advice' = Assign(advice, AdviceCell(NextRegion, "value", 0), value)
    /\ pc' = "synthesized"
    /\ UNCHANGED <<inputs, prover, pass, table, copies, constant_cells, aborted, failures>>

\* example2 synthesize: config.lookup_table.load(&mut layouter)
RangeCheck2Load ==
    /\ circuit = "range_check2" /\ pc = "load"
    /\ regions' = Append(regions, "load range check table")
    /\ table' = RangeTableLoad2(NUM_BITS)
    /\ pc' = "assign_simple"
    /\ UNCHANGED <<inputs, prover, pass, advice, enabled, copies, constant_cells, aborted, failures>>

\* example2 RangeCheckConfig::assign_simple
RangeCheck2AssignSimple ==
    /\ circuit = "range_check2" /\ pc = "assign_simple"
    /\ regions' = Append(regions, "assign value for simple range check")
    /\ enabled' = enabled \cup {<<NextRegion, "q_range_check", 0>>}
    /\ advice' = Assign(advice, AdviceCell(NextRegion, "value", 0), value)
    /\ pc' = "assign_lookup"
    /\ UNCHANGED <<inputs, prover, pass, table, copies, constant_cells, aborted, failures>>

\* example2 RangeCheckConfig::assign_lookup
RangeCheck2AssignLookup ==
    /\ circuit = "range_check2" /\ pc = "assign_lookup"
    /\ regions' = Append(regions, "assign value for lookup range check")
    /\ enabled' = enabled \cup {<<NextRegion, "q_lookup", 0>>}
    /\ advice' = Assign(advice, AdviceCell(NextRegion, "value", 0), lookup_value)
    /\ pc' = "synthesized"
    /\ UNCHANGED <<inputs, prover, pass, table, copies, constant_cells, aborted, failures>>

\* IsEqualChip::assign, called from synthesize; it ends with IsZeroChip::assign
IsEqualAssign ==
    /\ circuit = "is_equal" /\ pc = "assign"
    /\ regions' = Append(regions, "assign value")
    /\ enabled' = enabled \cup {<<NextRegion, "selector", 0>>}
    /\ advice' = Assign(Assign(Assign(advice,
                    AdviceCell(NextRegion, "a", 0), a),
                    AdviceCell(NextRegion, "b", 0), b),
                    AdviceCell(NextRegion, "value_inv", 0), IsZeroAssign(FSub(a, b)))
    /\ pc' = "synthesized"
    /\ UNCHANGED <<inputs, prover, pass, table, copies, constant_cells, aborted, failures>>

\* The cell of the instance column at an absolute row
InstanceCell(row) == <<0, "instance", row>>

\* fibonaci/example2 synthesize: FiboChip::assign fills the "fibonaci table"
\* region (the selector rows, a and b copied from instance rows 0 and 1, the
\* sums below them), then expose_public ties the returned cell to instance
\* row 2.
FiboSynthesize ==
    /\ circuit = "fibo" /\ pc = "assign"
    /\ LET r == NextRegion
           a_cell == AdviceCell(r, "advice", 0)
           b_cell == AdviceCell(r, "advice", 1)
           from_instance == Assign(Assign(advice, a_cell, instance[1]), b_cell, instance[2])
           assigned == FiboLoop(from_instance, r, 2, FiboRows, a_cell, b_cell)
       IN  /\ regions' = Append(regions, "fibonaci table")
           /\ enabled' = enabled \cup
                 {<<r, "selector", row>> : row \in FiboSelectorRows(FiboRows)}
           /\ advice' = assigned.advice
           /\ copies' = copies \cup
                 {<<InstanceCell(0), a_cell>>, <<InstanceCell(1), b_cell>>,
                  <<InstanceCell(FiboOutRow), assigned.out_cell>>}
    /\ pc' = "synthesized"
    /\ UNCHANGED <<inputs, prover, pass, table, constant_cells, aborted, failures>>

\* decompose synthesize: config.lookup_table.load(&mut layouter).
\* In V1's measurement pass assign_table does nothing.
DecomposeLoad ==
    /\ circuit = "decompose" /\ pc = "load"
    /\ IF pass = "measure"
       THEN UNCHANGED <<regions, table>>
       ELSE /\ regions' = Append(regions, "load range check table")
            /\ table' = RangeTableLoadDecompose(RANGE)
    /\ pc' = "witness"
    /\ UNCHANGED <<inputs, prover, pass, advice, enabled, copies, constant_cells, aborted, failures>>

\* decompose synthesize: the "witness region" assigning self.value at row 0.
\* In the measurement pass the region only records its shape.
DecomposeWitness ==
    /\ circuit = "decompose" /\ pc = "witness"
    /\ IF pass = "measure"
       THEN UNCHANGED <<regions, advice>>
       ELSE /\ regions' = Append(regions, "witness region")
            /\ advice' = Assign(advice, AdviceCell(NextRegion, "running_sum", 0), value)
    /\ pc' = "config.assign"
    /\ UNCHANGED <<inputs, prover, pass, table, enabled, copies, constant_cells, aborted, failures>>

\* DecomposeConfig::assign up to assign_region:
\*   assert_eq!(num_bits % lookup_num_bits, 0)
DecomposeAssert ==
    /\ circuit = "decompose" /\ pc = "config.assign"
    /\ IF num_bits % lookup_num_bits(RANGE) # 0
       THEN aborted' = TRUE /\ pc' = "aborted"
       ELSE aborted' = aborted /\ pc' = "region"
    /\ UNCHANGED <<inputs, prover, pass, cs, failures>>

\* DecomposeConfig::assign: the "Decompose Region" closure.  It copies the
\* value to z_0, computes and assigns z_1..z_C, enables q_decompose on rows
\* 0..C-1 and constrains the last assigned cell to zero.
DecomposeRegion ==
    /\ circuit = "decompose" /\ pc = "region"
    /\ IF pass = "measure"
       THEN /\ pc' = "measured"
            /\ UNCHANGED <<cs, aborted>>
       ELSE LET r == NextRegion
                source == AdviceCell(r - 1, "running_sum", 0)
                k == lookup_num_bits(RANGE)
                z0 == Assign(advice, AdviceCell(r, "running_sum", 0), advice[source])
                rs == compute_running_sum(advice[source], num_bits, k)
                zs == rs.running_sum
            IN  /\ regions' = Append(regions, "Decompose Region")
                /\ copies' = copies \cup {<<source, AdviceCell(r, "running_sum", 0)>>}
                /\ table' = table
                /\ IF rs.panic
                   THEN /\ advice' = z0
                        /\ aborted' = TRUE /\ pc' = "aborted"
                        /\ UNCHANGED <<enabled, constant_cells>>
                   ELSE /\ advice' =
                             [c \in {AdviceCell(r, "running_sum", i) : i \in 1..Len(zs)}
                                 |-> zs[c[3]]] @@ z0
                        /\ enabled' = enabled \cup
                             {<<r, "q_decompose", row>> : row \in 0..((num_bits \div k) - 1)}
                        /\ constant_cells' = constant_cells \cup
                             {<<AdviceCell(r, "running_sum", Len(zs)), 0>>}
                        /\ aborted' = aborted /\ pc' = "synthesized"
    /\ UNCHANGED <<inputs, prover, pass, failures>>

\* V1::synthesize: after the measurement pass, plan and run the assignment pass
V1AssignmentPass ==
    /\ pc = "measured" /\ pass = "measure"
    /\ pass' = "assign"
    /\ pc' = "load"
    /\ UNCHANGED <<inputs, prover, cs, aborted, failures>>

\* ------------------------------------------------------ a dishonest prover
\* The inverse witness is an advice cell the prover is free to choose: any
\* field element may stand in the value_inv column when verify runs.
DishonestValueInv ==
    /\ circuit = "is_equal" /\ pc = "synthesized" /\ prover = "honest"
    /\ \E v \in Field :
          advice' = Assign(advice, AdviceCell(0, "value_inv", 0), v)
    /\ prover' = "dishonest"
    /\ UNCHANGED <<inputs, pass, pc, regions, table, enabled, copies, constant_cells,
                   aborted, failures>>

\* ------------------------------------------------------------------ verify
\* MockProver reads an unassigned advice cell as zero
CellValue(adv, r, col, o) ==
    IF <<r, col, o>> \in DOMAIN adv THEN adv[<<r, col, o>>] ELSE 0
Selector(r, s, o) == IF <<r, s, o>> \in enabled THEN 1 ELSE 0

RowLeq(x, y) == x[1] < y[1] \/ (x[1] = y[1] /\ x[2] <= y[2])
RECURSIVE SortRows(_)
SortRows(S) ==
    IF S = {} THEN <<>>
    ELSE LET m == CHOOSE x \in S : \A y \in S : RowLeq(x, y)
         IN  <<m>> \o SortRows(S \ {m})
\* the rows verify walks, in order: <<region, offset>>
AssignedRows(adv) == SortRows({<<c[1], c[3]>> : c \in DOMAIN adv})

\* ConstraintSystem of the circuit: its gates, in creation order
Gates ==
    CASE circuit = "range_check1" -> <<"Range Check">>
      [] circuit = "range_check2" -> <<"Range Check">>
      [] circuit = "is_equal" -> <<"is_zero", "Is Equal">>
      [] circuit = "fibo" -> <<"add">>
      [] OTHER -> <<>>

\* The value of a gate's polynomial on a row
GateValue(adv, g, r, o) ==
    CASE circuit = "range_check1" ->
            RangeCheckGate1(Selector(r, "q_range_check", o), RANGE,
                            CellValue(adv, r, "value", o))
      [] circuit = "range_check2" ->
            RangeCheckGate2(Selector(r, "q_range_check", o), RANGE,
                            CellValue(adv, r, "value", o))
      [] circuit = "is_equal" /\ g = "is_zero" ->
            IsZeroGate(Selector(r, "selector", o),
                       FSub(CellValue(adv, r, "a", o), CellValue(adv, r, "b", o)),
                       CellValue(adv, r, "value_inv", o))
      [] circuit = "is_equal" /\ g = "Is Equal" ->
            IsEqualGate(Selector(r, "selector", o),
                        CellValue(adv, r, "a", o), CellValue(adv, r, "b", o))
      [] circuit = "fibo" ->
            FiboAddGate(Selector(r, "selector", o),
                        CellValue(adv, r, "advice", o),
                        CellValue(adv, r, "advice", o + 1),
                        CellValue(adv, r, "advice", o + 2))
      [] OTHER -> 0

\* ConstraintSystem of the circuit: its lookup arguments
Lookups ==
    CASE circuit = "range_check2" -> <<"lookup 0">>
      [] circuit = "decompose" -> <<"lookup 0">>
      [] OTHER -> <<>>

\* The input expression of the lookup on a row
LookupInput(adv, r, o) ==
    CASE circuit = "range_check2" ->
            RangeLookupInput(Selector(r, "q_lookup", o), CellValue(adv, r, "value", o))
      [] circuit = "decompose" ->
            DecomposeLookupInput(Selector(r, "q_decompose", o),
                                 CellValue(adv, r, "running_sum", o),
                                 CellValue(adv, r, "running_sum", o + 1), RANGE)
      [] OTHER -> 0

\* A lookup holds on a row when its input is one of the table's values
InTable(x) == \E i \in 1..Len(table) : table[i] = x

Failure(kind, name, row) ==
    [kind |-> kind, name |-> name, region |-> row[1], offset |-> row[2]]

GateFailuresOf(adv, g) ==
    LET bad == SelectSeq(AssignedRows(adv),
                         LAMBDA row : GateValue(adv, g, row[1], row[2]) # 0)
    IN  [i \in 1..Len(bad) |-> Failure("ConstraintNotSatisfied", g, bad[i])]

LookupFailuresOf(adv, l) ==
    LET bad == SelectSeq(AssignedRows(adv),
                         LAMBDA row : ~InTable(LookupInput(adv, row[1], row[2])))
    IN  [i \in 1..Len(bad) |-> Failure("Lookup", l, bad[i])]

RECURSIVE GateFailures(_, _)
\* the failures of the gates gs, gate by gate
GateFailures(adv, gs) ==
    IF gs = <<>> THEN <<>>
    ELSE GateFailuresOf(adv, Head(gs)) \o GateFailures(adv, Tail(gs))

RECURSIVE LookupFailures(_, _)
\* the failures of the lookups ls, lookup by lookup
LookupFailures(adv, ls) ==
    IF ls = <<>> THEN <<>>
    ELSE LookupFailuresOf(adv, Head(ls)) \o LookupFailures(adv, Tail(ls))

\* An equality constraint fails on a cell whose value differs from the cell
\* or constant it is tied to
EqualityValue(adv, cell) ==
    IF cell[2] = "instance" THEN instance[cell[3] + 1] ELSE adv[cell]

PermutationOk(adv, row) ==
    /\ \A c \in copies :
          (<<c[2][1], c[2][3]>> = row) => EqualityValue(adv, c[1]) = EqualityValue(adv, c[2])
    /\ \A c \in constant_cells :
          (<<c[1][1], c[1][3]>> = row) => adv[c[1]] = c[2]

\* The advice column with equality enabled
PermutationColumn == IF circuit = "fibo" THEN "advice" ELSE "running_sum"

PermutationFailures(adv) ==
    LET bad == SelectSeq(AssignedRows(adv), LAMBDA row : ~PermutationOk(adv, row))
    IN  [i \in 1..Len(bad) |-> Failure("Permutation", PermutationColumn, bad[i])]

\* MockProver::verify over the advice assignment adv: gate failures, then
\* lookup failures, then permutation failures
verify(adv) ==
    GateFailures(adv, Gates) \o LookupFailures(adv, Lookups)
        \o PermutationFailures(adv)

Verify ==
    /\ pc = "synthesized"
    /\ failures' = verify(advice)
    /\ pc' = "verified"
    /\ UNCHANGED <<inputs, prover, pass, cs, aborted>>

\* ------------------------------------------------------------ specification
Next ==
    \/ RangeCheck1Assign
    \/ RangeCheck2Load
    \/ RangeCheck2AssignSimple
    \/ RangeCheck2AssignLookup
    \/ IsEqualAssign
    \/ FiboSynthesize
    \/ DishonestValueInv
    \/ DecomposeLoad
    \/ DecomposeWitness
    \/ DecomposeAssert
    \/ DecomposeRegion
    \/ V1AssignmentPass
    \/ Verify

Spec == Init /\ [][Next]_vars

\* ================================================================= claims
\* Cells of the decomposer: the "Decompose Region" is the third region the
\* assignment pass enters (after the table and the witness region).
DecomposeRegionIndex == 2
Z(i) == advice[<<DecomposeRegionIndex, "running_sum", i>>]
\* c_i = z_i - z_{i+1} * 2^K
Limb(i, k) == FSub(Z(i), FMul(Z(i + 1), FromU64(Pow2(k))))
RECURSIVE LimbSum(_, _)
\* c_0 + 2^K c_1 + ... + 2^{(n-1)K} c_{n-1}, as an integer
LimbSum(n, k) == IF n = 0 THEN 0 ELSE LimbSum(n - 1, k) + Limb(n - 1, k) * Pow2(k * (n - 1))

Synthesized == pc \in {"synthesized", "verified"}
\* The decomposer instantiated for chunk width K = NUM_BITS with the table of
\* that K: RANGE = 1 << NUM_BITS, as the repository's test instantiates it.
DecomposerOfWidthK == circuit = "decompose" /\ RANGE = Pow2(NUM_BITS)

\* C1: for chunk width K, N a multiple of K with 2^N < P and 0 <= value < 2^N,
\* synthesis does not abort and verification succeeds: every limb
\* c_i = z_i - z_{i+1}*2^K is in the table, z_C = 0, and the limbs
\* reconstruct value.
C1_DecomposeInRangeSucceeds ==
    (/\ DecomposerOfWidthK
     /\ num_bits % NUM_BITS = 0
     /\ Pow2(num_bits) < P
     /\ value < Pow2(num_bits))
    => /\ ~aborted
       /\ Synthesized =>
            /\ \A i \in 0..((num_bits \div NUM_BITS) - 1) : InTable(Limb(i, NUM_BITS))
            /\ Z(num_bits \div NUM_BITS) = 0
            /\ LimbSum(num_bits \div NUM_BITS, NUM_BITS) = value
       /\ pc = "verified" => failures = <<>>

C1_Witness ==
    /\ DecomposerOfWidthK /\ pc = "verified" /\ failures = <<>>
    /\ num_bits = 2 * NUM_BITS /\ Pow2(num_bits) < P
    /\ value < Pow2(num_bits) /\ value >= Pow2(NUM_BITS)
    /\ Z(1) # 0 /\ Z(2) = 0

\* C2: for N a multiple of the chunk width and value >= 2^N, the synthesized
\* running sum ends in a nonzero z_C, so the constraint z_C = 0 is violated
\* and verification fails.
C2_DecomposeOutOfRangeFails ==
    (/\ circuit = "decompose"
     /\ num_bits % lookup_num_bits(RANGE) = 0
     /\ value >= Pow2(num_bits))
    => /\ ~aborted
       /\ Synthesized => Z(num_bits \div lookup_num_bits(RANGE)) # 0
       /\ pc = "verified" =>
            \E i \in 1..Len(failures) :
                failures[i] = Failure("Permutation", "running_sum",
                    <<DecomposeRegionIndex, num_bits \div lookup_num_bits(RANGE)>>)

C2_Witness ==
    /\ circuit = "decompose" /\ pc = "verified"
    /\ num_bits = 2 * lookup_num_bits(RANGE)
    /\ value = Pow2(num_bits)
    /\ failures # <<>>

\* Some choice of z_{i+1}..z_C extends the assignment adv, whose z_0..z_i are
\* fixed, to one that verify accepts
RECURSIVE ExistsRunningSum(_, _)
ExistsRunningSum(i, adv) ==
    IF i = num_bits \div lookup_num_bits(RANGE)
    THEN verify(adv) = <<>>
    ELSE \E z_next \in Field :
            LET adv2 == Assign(adv, AdviceCell(DecomposeRegionIndex, "running_sum", i + 1), z_next)
            IN  /\ InTable(LookupInput(adv2, DecomposeRegionIndex, i))
                /\ ExistsRunningSum(i + 1, adv2)

\* C3: with z_0 fixed to value and 2^N < P, some assignment of z_1..z_C
\* satisfies every lookup and z_C = 0 if and only if value < 2^N.
C3_DecomposeSound ==
    (/\ DecomposerOfWidthK
     /\ num_bits % NUM_BITS = 0
     /\ Pow2(num_bits) < P
     /\ Synthesized)
    => (ExistsRunningSum(0, advice) <=> value < Pow2(num_bits))

C3_Witness ==
    /\ DecomposerOfWidthK /\ pc = "verified"
    /\ num_bits = 2 * NUM_BITS /\ Pow2(num_bits) < P
    /\ value >= Pow2(num_bits)
    /\ ~ExistsRunningSum(0, advice)

\* C4: the range-check gate on an enabled row is satisfied if and only if
\* value is one of 0..RANGE-1, in example1 and in example2.
C4_RangeCheckGate ==
    /\ (circuit = "range_check1" /\ Synthesized) =>
         /\ <<0, "q_range_check", 0>> \in enabled
         /\ GateValue(advice, "Range Check", 0, 0) = 0 <=> value \in 0..(RANGE - 1)
    /\ (circuit = "range_check2" /\ Synthesized) =>
         /\ <<1, "q_range_check", 0>> \in enabled
         /\ GateValue(advice, "Range Check", 1, 0) = 0 <=> value \in 0..(RANGE - 1)
    /\ (circuit \in {"range_check1", "range_check2"} /\ pc = "verified") =>
         ((\A i \in 1..Len(failures) : failures[i].kind # "ConstraintNotSatisfied")
            <=> value \in 0..(RANGE - 1))

C4_Witness ==
    /\ circuit = "range_check2" /\ pc = "verified"
    /\ RANGE = 8 /\ value = 8
    /\ failures # <<>> /\ failures[1].kind = "ConstraintNotSatisfied"

\* The Zero Test's row in the is_equal circuit
ZeroTestValue == FSub(advice[<<0, "a", 0>>], advice[<<0, "b", 0>>])
ZeroTestInv == advice[<<0, "value_inv", 0>>]

\* C5: IsZeroChip::assign never fails and assigns value^{-1} for value # 0
\* and 0 for value = 0; the indicator 1 - value*value_inv is then 1 for
\* value = 0 and 0 otherwise, and the gate value * indicator = 0 holds.
C5_ZeroTestHonest ==
    (circuit = "is_equal")
    => /\ ~aborted
       /\ (Synthesized /\ prover = "honest") =>
            /\ ZeroTestValue # 0 => FMul(ZeroTestValue, ZeroTestInv) = 1
            /\ ZeroTestValue = 0 => ZeroTestInv = 0
            /\ IsZeroExpr(ZeroTestValue, ZeroTestInv) = (IF ZeroTestValue = 0 THEN 1 ELSE 0)
            /\ GateValue(advice, "is_zero", 0, 0) = 0
       /\ (pc = "verified" /\ prover = "honest") =>
            \A i \in 1..Len(failures) : failures[i].name # "is_zero"

C5_Witness ==
    /\ circuit = "is_equal" /\ pc = "verified" /\ prover = "honest"
    /\ ZeroTestValue \notin {0, 1, P - 1}
    /\ ZeroTestInv # 0

\* C6: on the enabled row, any value_inv that satisfies the gate
\* q_enable * value * (1 - value*value_inv) = 0 gives an indicator in {0, 1}
\* that is 1 exactly when value = 0.
C6_ZeroTestSound ==
    (/\ circuit = "is_equal" /\ Synthesized
     /\ <<0, "selector", 0>> \in enabled
     /\ GateValue(advice, "is_zero", 0, 0) = 0)
    => /\ IsZeroExpr(ZeroTestValue, ZeroTestInv) \in {0, 1}
       /\ IsZeroExpr(ZeroTestValue, ZeroTestInv) = 1 <=> ZeroTestValue = 0

C6_Witness ==
    /\ circuit = "is_equal" /\ pc = "verified" /\ prover = "dishonest"
    /\ ZeroTestValue = 0 /\ ZeroTestInv # 0
    /\ GateValue(advice, "is_zero", 0, 0) = 0
    /\ IsZeroExpr(ZeroTestValue, ZeroTestInv) = 1

\* C7: the IsEqual circuit synthesized with (a, b) verifies if and only if
\* a = b.
C7_IsEqualIffEqual ==
    (circuit = "is_equal" /\ pc = "verified" /\ prover = "honest")
    => (failures = <<>> <=> a = b)

C7_Witness ==
    /\ circuit = "is_equal" /\ pc = "verified" /\ prover = "honest"
    /\ a # b
    /\ failures = <<Failure("ConstraintNotSatisfied", "Is Equal", <<0, 0>>)>>

\* The table has exactly 2^k rows, row i holding the integer i, all distinct
TableIsRange(k) ==
    /\ Len(table) = Pow2(k)
    /\ \A i \in 0..(Pow2(k) - 1) : table[i + 1] = i
    /\ \A i, j \in 1..Len(table) : table[i] = table[j] => i = j

\* C8: after load the table holds exactly 2^K entries, entry i being the
\* integer i, all distinct: in example2 (K = NUM_BITS) and in the decomposer
\* of chunk width K.
C8_TableContent ==
    /\ (circuit = "range_check2" /\ pc # "load") => TableIsRange(NUM_BITS)
    /\ (DecomposerOfWidthK /\ pass = "assign" /\ pc # "load") => TableIsRange(NUM_BITS)

C8_Witness ==
    /\ circuit = "range_check2" /\ pc = "assign_simple"
    /\ NUM_BITS = 3 /\ table = <<0, 1, 2, 3, 4, 5, 6, 7>>

\* C9: for every RANGE, the chunk width K = floor(log2(RANGE + 1)) used by
\* the limb relation satisfies 2^K = RANGE = number of table entries, so a
\* limb passes the lookup exactly when it is in [0, 2^K).
C9_SameKEverywhere ==
    (circuit = "decompose" /\ pass = "assign" /\ pc # "load")
    => /\ Pow2(lookup_num_bits(RANGE)) = RANGE
       /\ Len(table) = Pow2(lookup_num_bits(RANGE))
       /\ \A x \in Field : InTable(x) <=> x < Pow2(lookup_num_bits(RANGE))

\* C10: when num_bits is not a multiple of the chunk width, the run aborts
\* before any witness cell is assigned: no advice cell is ever assigned, and
\* the run never gets past the assert.
C10_AbortBeforeWitness ==
    (circuit = "decompose" /\ num_bits % lookup_num_bits(RANGE) # 0)
    => /\ DOMAIN advice = {}
       /\ pc \in {"load", "witness", "config.assign", "aborted"}
       /\ aborted <=> pc = "aborted"

C10_Witness ==
    /\ circuit = "decompose" /\ num_bits % lookup_num_bits(RANGE) # 0
    /\ aborted /\ pc = "aborted" /\ DOMAIN advice = {}

\* The failures example2's tests expect, with the regions' indices
SimpleRegionIndex == 1
LookupRegionIndex == 2
RangeCheckFailure ==
    Failure("ConstraintNotSatisfied", "Range Check", <<SimpleRegionIndex, 0>>)
RangeLookupFailure == Failure("Lookup", "lookup 0", <<LookupRegionIndex, 0>>)

\* C11: the combined range check over (value, lookup_value) never aborts;
\* verify reports the polynomial failure at the simple-check region, offset
\* 0, whose cell holds value, if and only if value is not in 0..RANGE-1, and
\* the lookup failure at the lookup region if and only if lookup_value is
\* not in 0..2^NUM_BITS-1; nothing else is reported and the polynomial
\* failure comes first.
C11_CombinedRangeCheck ==
    (circuit = "range_check2")
    => /\ ~aborted
       /\ pc \in {"load", "assign_simple", "assign_lookup", "synthesized", "verified"}
       /\ pc = "verified" =>
            /\ failures =
                  (IF value \in 0..(RANGE - 1) THEN <<>> ELSE <<RangeCheckFailure>>)
                  \o (IF lookup_value \in 0..(Pow2(NUM_BITS) - 1)
                      THEN <<>> ELSE <<RangeLookupFailure>>)
            /\ advice[<<SimpleRegionIndex, "value", 0>>] = value
            /\ advice[<<LookupRegionIndex, "value", 0>>] = lookup_value
            /\ regions[SimpleRegionIndex + 1] = "assign value for simple range check"
            /\ regions[LookupRegionIndex + 1] = "assign value for lookup range check"

C11_Witness ==
    /\ circuit = "range_check2" /\ pc = "verified"
    /\ RANGE = 8 /\ NUM_BITS = 4 /\ value = 8 /\ lookup_value = 16
    /\ failures = <<RangeCheckFailure, RangeLookupFailure>>

\* The "witness region" is the second region the assignment pass enters
WitnessRegionIndex == 1

\* C12: with num_bits = 0 the decomposition is empty for every chunk width:
\* no z beyond z_0 is assigned, q_decompose is enabled on no row, the run
\* does not abort, and verify succeeds if and only if value = 0.
C12_DecomposeZeroBits ==
    (circuit = "decompose" /\ num_bits = 0)
    => /\ ~aborted
       /\ lookup_num_bits(RANGE) >= 1
       /\ Synthesized =>
            /\ compute_running_sum(value, num_bits, lookup_num_bits(RANGE)).running_sum = <<>>
            /\ DOMAIN advice = {<<WitnessRegionIndex, "running_sum", 0>>,
                                <<DecomposeRegionIndex, "running_sum", 0>>}
            /\ Z(0) = value
            /\ enabled = {}
            /\ constant_cells = {<<<<DecomposeRegionIndex, "running_sum", 0>>, 0>>}
       /\ pc = "verified" => (failures = <<>> <=> value = 0)

C12_Witness ==
    /\ circuit = "decompose" /\ num_bits = 0 /\ pc = "verified"
    /\ value = 5
    /\ failures = <<Failure("Permutation", "running_sum", <<DecomposeRegionIndex, 0>>)>>

\* C13: the polynomial the range-check gate builds for RANGE has exactly
\* RANGE value-dependent factors and equals the product of (j - value) over
\* j = 0..RANGE-1, in example1 and in example2.
C13_RangeCheckProduct ==
    LET product == EvalProduct([j \in 1..RANGE |-> ConstMinusValue(j - 1)], value)
    IN  /\ circuit = "range_check1" =>
             /\ Len(range_check1(RANGE)) = RANGE
             /\ EvalProduct(range_check1(RANGE), value) = product
        /\ circuit = "range_check2" =>
             /\ Len(range_check2(RANGE)) = RANGE
             /\ EvalProduct(range_check2(RANGE), value) = product

\* The decomposer's invocation has run: DecomposeConfig::assign returned or
\* panicked in the assignment pass
DecomposeInvoked ==
    /\ circuit = "decompose" /\ pass = "assign"
    /\ pc \in {"synthesized", "verified", "aborted"}

\* C14: in every decomposer invocation with num_bits a multiple of the chunk
\* width K, z_0 is the untruncated value, the limbs are the consecutive
\* K-bit chunks of value's lowest num_bits bits, every assigned step
\* satisfies z_{i+1} = (z_i - c_i) * 2^{-K}, equivalently
\* z_i - z_{i+1} * 2^K = c_i with c_i in [0, 2^K), and exactly C = num_bits / K
\* values z_1..z_C are produced.
C14_RunningSumInvariant ==
    LET k == lookup_num_bits(RANGE)
        C == num_bits \div k
        c(i) == ((value % Pow2(num_bits)) \div Pow2(k * i)) % Pow2(k)
    IN  (DecomposeInvoked /\ num_bits % k = 0)
        => /\ Z(0) = value
           /\ Len(compute_running_sum(value, num_bits, k).running_sum) = C
           /\ DOMAIN advice =
                 {<<WitnessRegionIndex, "running_sum", 0>>}
                 \cup {<<DecomposeRegionIndex, "running_sum", i>> : i \in 0..C}
           /\ \A i \in 0..(C - 1) :
                 /\ c(i) \in 0..(Pow2(k) - 1)
                 /\ Z(i + 1) = FMul(FSub(Z(i), FromU64(c(i))), AssignedInvert(FromU64(Pow2(k))))
                 /\ Limb(i, k) = c(i)

\* The advice column of the Fibonacci table (region 0)
Fib(row) == advice[<<0, "advice", row>>]
FiboEnabledRows == {e[3] : e \in {x \in enabled : x[1] = 0 /\ x[2] = "selector"}}

\* C15: with rows = 10 and public inputs (a, b, out), the advice column
\* holds a, b and then the sum of the two cells above on rows 2..9; the add
\* gate is enabled on exactly rows 0..7, so every gate row reads only
\* assigned cells and every cell of rows 2..9 is the c of a gate row; the
\* circuit verifies if and only if out equals the cell of row 9 (55 for
\* a = b = 1).
C15_Fibonacci ==
    (circuit = "fibo" /\ Synthesized)
    => /\ Fib(0) = instance[1] /\ Fib(1) = instance[2]
       /\ \A row \in 2..9 : Fib(row) = FAdd(Fib(row - 2), Fib(row - 1))
       /\ DOMAIN advice = {<<0, "advice", row>> : row \in 0..9}
       /\ FiboEnabledRows = 0..7
       /\ \A g \in FiboEnabledRows :
             {<<0, "advice", g>>, <<0, "advice", g + 1>>, <<0, "advice", g + 2>>}
                \subseteq DOMAIN advice
       /\ \A row \in 2..9 : row - 2 \in FiboEnabledRows
       /\ (instance[1] = 1 /\ instance[2] = 1) => Fib(9) = FromU64(55)
       /\ pc = "verified" => (failures = <<>> <=> instance[3] = Fib(9))

C15_Witness ==
    /\ circuit = "fibo" /\ pc = "verified"
    /\ instance = <<1, 1, FromU64(56)>>
    /\ Fib(9) = FromU64(55)
    /\ failures = <<Failure("Permutation", "advice", <<0, 9>>)>>

\* C16: for num_bits a multiple of K and at most the field's bit length,
\* the synthesized running sum is z_i = floor(value / 2^(K*i)) as an integer
\* for i in 0..C, so z_C = floor(value / 2^num_bits); hence, in the
\* decomposer of chunk width K, for value >= 2^num_bits every limb lookup on
\* rows 0..C-1 passes and the terminal constraint z_C = 0 is the only
\* failure.
C16_RunningSumIsFloor ==
    LET k == lookup_num_bits(RANGE)
        C == num_bits \div k
    IN  (/\ circuit = "decompose"
         /\ num_bits % k = 0
         /\ num_bits <= BitLen(P))
        => /\ ~aborted
           /\ Synthesized =>
                /\ \A i \in 0..C : Z(i) = value \div Pow2(k * i)
                /\ Z(C) = value \div Pow2(num_bits)
           /\ (DecomposerOfWidthK /\ pc = "verified" /\ value >= Pow2(num_bits)) =>
                /\ \A i \in 0..(C - 1) :
                      /\ <<DecomposeRegionIndex, "q_decompose", i>> \in enabled
                      /\ InTable(LookupInput(advice, DecomposeRegionIndex, i))
                /\ failures =
                      <<Failure("Permutation", "running_sum", <<DecomposeRegionIndex, C>>)>>

C16_Witness ==
    /\ DecomposerOfWidthK /\ pc = "verified"
    /\ NUM_BITS = 2 /\ num_bits = 4 /\ num_bits <= BitLen(P)
    /\ value = 16
    /\ Z(1) = 4 /\ Z(2) = 1
    /\ failures = <<Failure("Permutation", "running_sum", <<DecomposeRegionIndex, 2>>)>>

\* C17: in the is_equal circuit, on the enabled row, whenever the gate
\* "Is Equal" s * (a - b) = 0 holds, the is_zero gate holds for every
\* value_inv and the indicator 1 - (a - b) * value_inv is 1; and when
\* a # b the circuit is rejected by "Is Equal", also with the honest
\* value_inv = (a - b)^{-1}, which satisfies the is_zero gate with
\* indicator 0.
C17_ZeroTestRedundant ==
    (circuit = "is_equal" /\ Synthesized)
    => /\ <<0, "selector", 0>> \in enabled
       /\ GateValue(advice, "Is Equal", 0, 0) = 0 =>
            \A v_inv \in Field :
                LET adv == Assign(advice, AdviceCell(0, "value_inv", 0), v_inv)
                IN  /\ GateValue(adv, "is_zero", 0, 0) = 0
                    /\ IsZeroExpr(ZeroTestValue, v_inv) = 1
                    /\ verify(adv) = <<>>
       /\ a # b =>
            /\ GateValue(advice, "Is Equal", 0, 0) # 0
            /\ prover = "honest" =>
                 /\ FMul(ZeroTestValue, ZeroTestInv) = 1
                 /\ GateValue(advice, "is_zero", 0, 0) = 0
                 /\ IsZeroExpr(ZeroTestValue, ZeroTestInv) = 0
                 /\ verify(advice) = <<Failure("ConstraintNotSatisfied", "Is Equal", <<0, 0>>)>>
            /\ pc = "verified" =>
                 \E i \in 1..Len(failures) :
                    failures[i] = Failure("ConstraintNotSatisfied", "Is Equal", <<0, 0>>)

C17_Witness ==
    /\ circuit = "is_equal" /\ pc = "verified" /\ prover = "dishonest"
    /\ a = 3 /\ b = 3 /\ ZeroTestInv = 7
    /\ failures = <<>>

====
